---------------------------- MODULE Spec2Model ----------------------------
(***************************************************************************)
(* CleanNames (src/main.py): the rename-plan engine and the window that    *)
(* drives it.                                                              *)
(*                                                                         *)
(* A file name is a sequence of one-character strings, a path is the       *)
(* sequence of the names below the chosen folder (the folder itself is the *)
(* empty path).  The filesystem maps each existing path to its kind and to *)
(* an identity that follows the entry through every move.  File operations *)
(* follow CPython 3.11 on a POSIX, case-sensitive filesystem.              *)
(***************************************************************************)
EXTENDS Integers, Sequences, FiniteSets, TLC

VARIABLES
    fs,           \* the directory tree below the chosen folder
    cfg,          \* the widgets of the left panel (mode, filters, parameters)
    le_dir,       \* MainWindow.le_dir holds a folder
    watching,     \* MainWindow.watcher watches the folder
    watch_timer,  \* MainWindow._watch_timer is running
    btn_preview,  \* MainWindow.btn_preview is enabled
    btn_rename,   \* MainWindow.btn_rename is enabled
    ops,          \* MainWindow.ops
    model_ops,    \* RenameModel.ops (the preview table)
    undo,         \* MainWindow.undo
    last_batch,   \* last_batch.json: whether it exists, and its contents
    pws,          \* every PreviewWorker started so far
    rws,          \* every RenameWorker started so far
    undo_log,     \* what the last completed _undo_last did (observation only)
    call          \* one call of a function of the engine on its own: its
                  \* arguments and what it returned

vars == <<fs, cfg, le_dir, watching, watch_timer, btn_preview, btn_rename,
          ops, model_ops, undo, last_batch, pws, rws, undo_log, call>>

(***************************************************************************)
(* Bounds of the model.                                                    *)
(***************************************************************************)
MaxPreviews == 2
MaxRenames == 2
MaxNameLen == 4
\* The number of entries other programs create in the folder.
MaxForeign == 1
\* The largest suffix _N among the paths _unique finds occupied one by one.
MaxSuffix == 2

(***************************************************************************)
(* Characters.  Ascii lists the characters of the model in code-point      *)
(* order; Python compares strings by code point.                           *)
(***************************************************************************)
Uppers ==
    <<"A", "B", "C", "D", "E", "F", "G", "H", "I", "J", "K", "L", "M",
      "N", "O", "P", "Q", "R", "S", "T", "U", "V", "W", "X", "Y", "Z">>

Lowers ==
    <<"a", "b", "c", "d", "e", "f", "g", "h", "i", "j", "k", "l", "m",
      "n", "o", "p", "q", "r", "s", "t", "u", "v", "w", "x", "y", "z">>

DigitChar == <<"0", "1", "2", "3", "4", "5", "6", "7", "8", "9">>

Ascii ==
    <<"\t", " ", "-", ".", "/">> \o DigitChar \o <<":", "?">> \o Uppers
        \o <<"_">> \o Lowers

Code(c) == CHOOSE k \in 1..Len(Ascii) : Ascii[k] = c

\* str.lower
Lower(c) ==
    IF \E k \in 1..Len(Uppers) : Uppers[k] = c
    THEN Lowers[CHOOSE k \in 1..Len(Uppers) : Uppers[k] = c]
    ELSE c

LowerStr(s) == [k \in 1..Len(s) |-> Lower(s[k])]

RECURSIVE StrLess(_, _)
StrLess(a, b) ==
    IF a = <<>> THEN b # <<>>
    ELSE IF b = <<>> THEN FALSE
    ELSE IF a[1] = b[1] THEN StrLess(Tail(a), Tail(b))
    ELSE Code(a[1]) < Code(b[1])

RECURSIVE Str(_)
Str(n) ==
    IF n < 10 THEN <<DigitChar[n + 1]>>
    ELSE Str(n \div 10) \o <<DigitChar[(n % 10) + 1]>>

RECURSIVE Concat(_)
Concat(ss) == IF ss = <<>> THEN <<>> ELSE Head(ss) \o Concat(Tail(ss))

Range(s) == {s[k] : k \in DOMAIN s}

(***************************************************************************)
(* pathlib.                                                                *)
(***************************************************************************)
Root == <<>>
Parent(p) == SubSeq(p, 1, Len(p) - 1)
Name(p) == p[Len(p)]
IsPrefix(a, b) == Len(a) <= Len(b) /\ SubSeq(b, 1, Len(a)) = a
IsAncestor(d, p) == Len(d) < Len(p) /\ IsPrefix(d, p)

\* Path.with_name raises ValueError for a name that is empty, is "." or
\* holds a separator.
ValidName(n) == n # <<>> /\ n # <<".">> /\ "/" \notin Range(n)
\* A faulty variant of WithName: the name is put below the path, not beside it.
WithNameBelow(p, n) == p \o <<n>>

\* Path.with_name
WithName(p, n) == Parent(p) \o <<n>>

\* str.rfind('.'), 0 when there is none (positions count from 1).
LastDot(n) ==
    LET dots == {k \in DOMAIN n : n[k] = "."}
    IN IF dots = {} THEN 0 ELSE CHOOSE k \in dots : \A j \in dots : j <= k

\* PurePath.suffix: from the last dot, unless the dot starts or ends the name.
Suffix(n) ==
    LET i == LastDot(n)
    IN IF 1 < i /\ i < Len(n) THEN SubSeq(n, i, Len(n)) ELSE <<>>

Stem(n) ==
    LET i == LastDot(n)
    IN IF 1 < i /\ i < Len(n) THEN SubSeq(n, 1, i - 1) ELSE n

\* Path.__lt__: the parts compared as a tuple of strings.
RECURSIVE PathLess(_, _)
PathLess(p, q) ==
    IF p = <<>> THEN q # <<>>
    ELSE IF q = <<>> THEN FALSE
    ELSE IF p[1] = q[1] THEN PathLess(Tail(p), Tail(q))
    ELSE StrLess(p[1], q[1])

\* str(path) and Path(text): the names joined with, and split at, "/".
PathStr(p) == Concat([k \in 1..Len(p) |-> <<"/">> \o p[k]])

RECURSIVE SplitAt(_, _, _)
SplitAt(s, sep, cur) ==
    IF s = <<>> THEN <<cur>>
    ELSE IF s[1] = sep THEN <<cur>> \o SplitAt(Tail(s), sep, <<>>)
    ELSE SplitAt(Tail(s), sep, Append(cur, s[1]))

ParsePath(s) ==
    SelectSeq(SplitAt(s, "/", <<>>), LAMBDA n : n # <<>> /\ n # <<".">>)

(***************************************************************************)
(* The filesystem: os.rename and shutil.move.                              *)
(***************************************************************************)
Exists(f, p) == p \in DOMAIN f
IsDir(f, p) == p = Root \/ (p \in DOMAIN f /\ f[p].kind = "dir")
IsFile(f, p) == p \in DOMAIN f /\ f[p].kind = "file"
Children(f, d) == {q \in DOMAIN f : Len(q) = Len(d) + 1 /\ IsPrefix(d, q)}
Ids(f) == {f[p].id : p \in DOMAIN f}
WhereIs(f, id) == {p \in DOMAIN f : f[p].id = id}
IdAt(f, p) == IF p \in DOMAIN f THEN f[p].id ELSE 0

Failed(f) == [ok |-> FALSE, fs |-> f]
Done(f) == [ok |-> TRUE, fs |-> f]

\* The tree with src and everything below it carried to dst; whatever was at
\* dst is replaced.
Relocate(f, src, dst) ==
    LET moved == {q \in DOMAIN f : IsPrefix(src, q)}
        kept == (DOMAIN f \ moved) \ {dst}
        dom == kept \cup {dst \o SubSeq(q, Len(src) + 1, Len(q)) : q \in moved}
    IN [q \in dom |->
           IF IsPrefix(dst, q)
           THEN f[src \o SubSeq(q, Len(dst) + 1, Len(q))]
           ELSE f[q]]

\* os.rename(src, dst) on POSIX: a file replaces a file, a directory replaces
\* an empty directory, without notice.
OsRename(f, src, dst) ==
    IF src \notin DOMAIN f THEN Failed(f)
    ELSE IF ~IsDir(f, Parent(dst)) THEN Failed(f)
    ELSE IF src = dst THEN Done(f)
    ELSE IF IsPrefix(src, dst) THEN Failed(f)
    ELSE IF dst \in DOMAIN f
    THEN IF f[src].kind = "file" /\ f[dst].kind = "file"
         THEN Done(Relocate(f, src, dst))
         ELSE IF f[src].kind = "dir" /\ f[dst].kind = "dir" /\ Children(f, dst) = {}
         THEN Done(Relocate(f, src, dst))
         ELSE Failed(f)
    ELSE Done(Relocate(f, src, dst))

MaxId(f) == IF Ids(f) = {} THEN 0 ELSE CHOOSE m \in Ids(f) : \A k \in Ids(f) : k <= m

\* os.makedirs for the missing ancestors of p (the new directories get new
\* identities).
WithAncestors(f, p) ==
    LET missing == {k \in 1..(Len(p) - 1) : SubSeq(p, 1, k) \notin DOMAIN f}
        base == MaxId(f)
    IN [q \in DOMAIN f \cup {SubSeq(p, 1, k) : k \in missing} |->
           IF q \in DOMAIN f THEN f[q]
           ELSE [kind |-> "dir", id |-> base + Len(q), dt |-> 0]]

\* shutil.move(src, dst): into dst when dst is a directory; os.rename first,
\* then copytree + rmtree for a directory, copy2 + unlink for a file.
ShutilMove(f, src, dst) ==
    LET real == IF IsDir(f, dst) THEN dst \o <<Name(src)>> ELSE dst
    IN IF IsDir(f, dst) /\ real \in DOMAIN f THEN Failed(f)
       ELSE LET r == OsRename(f, src, real)
            IN IF r.ok THEN r
               ELSE IF src \in DOMAIN f /\ f[src].kind = "dir"
               THEN IF IsPrefix(src, real) THEN Failed(f)
                    ELSE IF real \in DOMAIN f
                            \/ \E k \in 1..(Len(real) - 1) :
                                   IsFile(f, SubSeq(real, 1, k))
                    THEN Failed(f)
                    ELSE Done(Relocate(WithAncestors(f, real), src, real))
               ELSE Failed(f)

\* _safe_move
SafeMove(f, src, dst) ==
    LET r == OsRename(f, src, dst)
    IN IF r.ok THEN r ELSE ShutilMove(f, src, dst)

(***************************************************************************)
(* sanitise and _windows_fix.                                              *)
(***************************************************************************)
WIN_RESERVED ==
    {<<"c", "o", "n">>, <<"p", "r", "n">>, <<"a", "u", "x">>, <<"n", "u", "l">>}
        \cup {<<"c", "o", "m", DigitChar[i + 1]>> : i \in 1..9}
        \cup {<<"l", "p", "t", DigitChar[i + 1]>> : i \in 1..9}

RECURSIVE DropWhile(_, _)
DropWhile(s, W) ==
    IF s # <<>> /\ s[1] \in W THEN DropWhile(Tail(s), W) ELSE s

RECURSIVE RStrip(_, _)
RStrip(s, W) ==
    IF s # <<>> /\ s[Len(s)] \in W THEN RStrip(SubSeq(s, 1, Len(s) - 1), W) ELSE s

\* re.sub('[W]+', c, s): every maximal run of characters of W becomes c.
RECURSIVE Collapse(_, _, _)
Collapse(s, W, c) ==
    IF s = <<>> THEN <<>>
    ELSE IF s[1] \in W THEN <<c>> \o Collapse(DropWhile(s, W), W, c)
    ELSE <<s[1]>> \o Collapse(Tail(s), W, c)

RECURSIVE Join(_, _)
Join(parts, sep) ==
    IF parts = <<>> THEN <<>>
    ELSE IF Len(parts) = 1 THEN parts[1]
    ELSE parts[1] \o <<sep>> \o Join(Tail(parts), sep)

\* A faulty variant of WindowsFix: no guard against reserved device names.
WindowsFixUnguarded(name) ==
    LET parts == SplitAt(name, ".", <<>>)
        stripped == RStrip(parts[1], {" ", "."})
    IN stripped \o (IF Tail(parts) # <<>> THEN <<".">> \o Join(Tail(parts), ".") ELSE <<>>)

\* _windows_fix
WindowsFix(name) ==
    LET parts == SplitAt(name, ".", <<>>)
        base == parts[1]
        ext == Tail(parts)
        guarded == IF LowerStr(base) \in WIN_RESERVED THEN base \o <<"_">> ELSE base
        stripped == RStrip(guarded, {" ", "."})
    IN stripped \o (IF ext # <<>> THEN <<".">> \o Join(ext, ".") ELSE <<>>)

\* A faulty variant of ReplaceBad: only the first bad character is handled.
ReplaceBadOnce(name, bad, repl) ==
    LET hits == {k \in 1..Len(name) : name[k] \in bad}
        first == CHOOSE k \in hits : \A j \in hits : k <= j
    IN IF hits = {} THEN name
       ELSE SubSeq(name, 1, first - 1) \o repl \o SubSeq(name, first + 1, Len(name))

\* The first statement of sanitise: every bad character becomes repl, or is
\* dropped when repl is None or empty (<<>>).
ReplaceBad(name, bad, repl) ==
    IF repl # <<>>
    THEN Concat([k \in 1..Len(name) |-> IF name[k] \in bad THEN repl ELSE <<name[k]>>])
    ELSE SelectSeq(name, LAMBDA c : c \notin bad)

\* A faulty variant of OrUnderscore: an empty name is returned as it is.
OrNothing(txt) == txt

\* "... or '_'"
OrUnderscore(txt) == IF txt = <<>> THEN <<"_">> ELSE txt

\* sanitise(name, bad, repl); repl is <<>> for None.
Sanitise(name, bad, repl) ==
    LET txt1 == ReplaceBad(name, bad, repl)
        white == {" ", "\t"}
        txt2 == Collapse(RStrip(DropWhile(txt1, white), white), white, "_")
        txt3 == Collapse(txt2, {"_"}, "_")
    IN OrUnderscore(WindowsFix(txt3))

(***************************************************************************)
(* _targets: the walk.  perm lists the entries in the order in which the   *)
(* operating system happens to enumerate them.                             *)
(***************************************************************************)
Perms(S) ==
    {p \in [1..Cardinality(S) -> S] : \A i, j \in 1..Cardinality(S) : p[i] = p[j] => i = j}

\* os.scandir(d)
ScanDir(f, d, perm) ==
    LET kids == Children(f, d)
    IN SelectSeq(perm, LAMBDA p : p \in kids)

\* Path.rglob('*'): the directories in depth-first pre-order, each one's
\* children listed in turn.
RECURSIVE RGlob(_, _, _)
RGlob(f, d, perm) ==
    LET here == ScanDir(f, d, perm)
        subs == SelectSeq(here, LAMBDA p : f[p].kind = "dir")
    IN here \o Concat([k \in 1..Len(subs) |-> RGlob(f, subs[k], perm)])

\* sorted(it, key=lambda x: len(x.parts), reverse=True): stable.
ByDepthDesc(raw) ==
    LET lens == {Len(raw[k]) : k \in DOMAIN raw}
        m == IF lens = {} THEN 0 ELSE CHOOSE x \in lens : \A y \in lens : y <= x
    IN Concat([k \in 1..m |-> SelectSeq(raw, LAMBDA p : Len(p) = m + 1 - k)])

\* _targets
Targets(f, rec, files, dirs, perm) ==
    LET raw == IF rec THEN RGlob(f, Root, perm) ELSE ScanDir(f, Root, perm)
    IN SelectSeq(ByDepthDesc(raw),
                 LAMBDA p : ~(IsFile(f, p) /\ ~files) /\ ~(IsDir(f, p) /\ ~dirs))

\* sorted(paths)
RECURSIVE SortPaths(_)
SortPaths(S) ==
    IF S = {} THEN <<>>
    ELSE LET m == CHOOSE x \in S : \A y \in S \ {x} : PathLess(x, y)
         IN <<m>> \o SortPaths(S \ {m})

Sorted(s) == SortPaths(Range(s))

(***************************************************************************)
(* _unique: the target allocator.                                          *)
(***************************************************************************)
UNIQUE_LIMIT == 10000
NoPath == <<>>

\* The candidate of iteration i of the while loop of _unique.
Candidate(tgt, i) ==
    WithName(tgt, Stem(Name(tgt)) \o <<"_">> \o Str(i) \o Suffix(Name(tgt)))

\* A faulty variant of UniqueFrom: the first candidate is returned untested.
UniqueFromUntested(f, tgt, taken, i) == Candidate(tgt, i)

\* The while loop of _unique from iteration i on, "while i < 10000": the
\* first candidate that is neither claimed nor on the disk, NoPath when the
\* loop ends without one.
UniqueFrom(f, tgt, taken, i) ==
    LET Free(n) == Candidate(tgt, n) \notin taken /\ Candidate(tgt, n) \notin DOMAIN f
        rest == i..(UNIQUE_LIMIT - 1)
    IN IF \E n \in rest : Free(n)
       THEN Candidate(tgt, CHOOSE n \in rest : Free(n) /\ \A j \in i..(n - 1) : ~Free(j))
       ELSE NoPath

\* A faulty variant of Unique: an allocator that does not look at the disk.
UniqueIgnoringDisk(f, tgt, taken) ==
    IF tgt \notin taken THEN tgt ELSE UniqueFrom(<<>>, tgt, taken, 1)

\* _unique(tgt, taken); NoPath stands for the RuntimeError.
Unique(f, tgt, taken) ==
    IF tgt \notin taken /\ tgt \notin DOMAIN f THEN tgt
    ELSE UniqueFrom(f, tgt, taken, 1)

\* The claimed set after _unique(tgt, taken): "taken.add(...)" before each
\* return, nothing when it raises.
UniqueTaken(f, tgt, taken) ==
    IF Unique(f, tgt, taken) = NoPath THEN taken ELSE taken \cup {Unique(f, tgt, taken)}

(***************************************************************************)
(* The four generators.  Each returns [ops, err]; err is "" on success.    *)
(***************************************************************************)
OsName == "posix"
PHOTO_EXTS ==
    {<<".", "j", "p", "g">>, <<".", "j", "p", "e", "g">>, <<".", "t", "i", "f">>,
     <<".", "t", "i", "f", "f">>, <<".", "p", "n", "g">>}

Op(src, tgt) == [src |-> src, tgt |-> tgt]
Plan(o) == [ops |-> o, err |-> ""]
GenError(msg) == [ops |-> <<>>, err |-> msg]

\* "src.is_file() and exts and src.suffix.lower() not in exts"
ExtSkipped(f, src, exts) ==
    IsFile(f, src) /\ exts # {} /\ LowerStr(Suffix(Name(src))) \notin exts

\* One pass of a generator's loop: news[k] is the new name of srcs[k], or
\* <<>> when the entry is skipped.
RECURSIVE Allocate(_, _, _, _, _)
Allocate(f, srcs, news, taken, acc) ==
    IF srcs = <<>> THEN Plan(acc)
    ELSE LET src == Head(srcs)
             new == Head(news)
         IN IF new = <<>> THEN Allocate(f, Tail(srcs), Tail(news), taken, acc)
            ELSE IF ~ValidName(new) THEN GenError("Invalid name")
            ELSE LET t == Unique(f, WithName(src, new), taken)
                 IN IF t = NoPath THEN GenError("Could not generate unique name")
                    ELSE Allocate(f, Tail(srcs), Tail(news),
                                  UniqueTaken(f, WithName(src, new), taken),
                                  Append(acc, Op(src, t)))


\* generate_standard
GenerateStandard(f, c, perm) ==
    LET Desired(src) ==
            LET new == Sanitise(Name(src), c.bad, c.repl)
            IN IF ExtSkipped(f, src, c.exts) THEN <<>>
               ELSE IF new = Name(src)
                       \/ (OsName = "nt" /\ LowerStr(new) = LowerStr(Name(src)))
               THEN <<>>
               ELSE new
        walk == Targets(f, c.rec, c.pf, c.pd, perm)
    IN Allocate(f, walk, [k \in 1..Len(walk) |-> Desired(walk[k])], {}, <<>>)

\* "sorted(_targets(...))" less the entries the extension filter skips.
SequentialOrder(f, c, perm) ==
    SelectSeq(Sorted(Targets(f, c.rec, c.pf, c.pd, perm)),
              LAMBDA src : ~ExtSkipped(f, src, c.exts))

\* A faulty variant of GenerateSequential: the entries are numbered in the
\* order of the walk.
GenerateSequentialWalkOrder(f, c, perm) ==
    LET srcs == SelectSeq(Targets(f, c.rec, c.pf, c.pd, perm),
                          LAMBDA src : ~ExtSkipped(f, src, c.exts))
        Desired(src) ==
            LET k == CHOOSE i \in 1..Len(srcs) : srcs[i] = src
                suf == IF IsFile(f, src) THEN Suffix(Name(src)) ELSE <<>>
            IN c.pre \o Str(c.start + k - 1) \o suf
    IN Allocate(f, srcs, [k \in 1..Len(srcs) |-> Desired(srcs[k])], {}, <<>>)

\* generate_sequential: the k-th eligible entry gets the number start + k - 1.
GenerateSequential(f, c, perm) ==
    LET srcs == SequentialOrder(f, c, perm)
        Desired(src) ==
            LET k == CHOOSE i \in 1..Len(srcs) : srcs[i] = src
                suf == IF IsFile(f, src) THEN Suffix(Name(src)) ELSE <<>>
            IN c.pre \o Str(c.start + k - 1) \o suf
    IN Allocate(f, srcs, [k \in 1..Len(srcs) |-> Desired(srcs[k])], {}, <<>>)

\* re.compile(pattern).sub(repl, name) for the patterns of the model: "^" and
\* a literal text; a pattern that does not compile has valid = FALSE.
RegexSub(pattern, repl, name) ==
    IF IsPrefix(pattern.text, name)
    THEN repl \o SubSeq(name, Len(pattern.text) + 1, Len(name))
    ELSE name

\* generate_regex
GenerateRegex(f, c, perm) ==
    LET Desired(src) ==
            LET new == RegexSub(c.pattern, c.rrepl, Name(src))
            IN IF ExtSkipped(f, src, c.exts) \/ new = Name(src) THEN <<>> ELSE new
    IN IF ~c.pattern.valid THEN GenError("bad pattern")
       ELSE LET walk == Targets(f, c.rec, c.pf, c.pd, perm)
            IN Allocate(f, walk, [k \in 1..Len(walk) |-> Desired(walk[k])], {}, <<>>)

\* _photo_dt: the capture time, else the modification time; 0 for None.
PhotoDt(f, p) == f[p].dt

\* dt.strftime("%Y-%m-%d_%H-%M-%S"); dt counts the seconds of 2020-01-01.
Strftime(dt) ==
    <<"2", "0", "2", "0", "-", "0", "1", "-", "0", "1", "_",
      "0", "0", "-", "0", "0", "-">> \o Str(dt \div 10) \o Str(dt % 10)

\* generate_metadata
GenerateMetadata(f, c, perm) ==
    LET Desired(src) ==
            IF IsDir(f, src) \/ LowerStr(Suffix(Name(src))) \notin PHOTO_EXTS
               \/ PhotoDt(f, src) = 0
            THEN <<>>
            ELSE c.mprefix \o Strftime(PhotoDt(f, src)) \o LowerStr(Suffix(Name(src)))
    IN IF ~c.pillow THEN GenError("Metadata mode requires Pillow")
       ELSE LET walk == Sorted(Targets(f, c.rec, c.pf, c.pd, perm))
            IN Allocate(f, walk, [k \in 1..Len(walk) |-> Desired(walk[k])], {}, <<>>)

\* What enumerating the root raises, "" for nothing: root.iterdir() raises
\* OSError when the root is not an accessible directory, root.rglob('*')
\* yields nothing and raises nothing.
WalkError(c) ==
    IF ~c.root_ok /\ ~c.rec THEN "No such file or directory" ELSE ""

\* PreviewWorker.run: ops and "" from the generator, [] and str(ex) when it
\* raised.  The generators reach _targets after re.compile and the Pillow
\* test, so the error of the walk comes after theirs.
Generate(f, c, perm) ==
    LET g == CASE c.mode = "std" -> GenerateStandard(f, c, perm)
               [] c.mode = "seq" -> GenerateSequential(f, c, perm)
               [] c.mode = "rex" -> GenerateRegex(f, c, perm)
               [] OTHER -> GenerateMetadata(f, c, perm)
    IN IF g.err = "" /\ WalkError(c) # "" THEN GenError(WalkError(c)) ELSE g

(***************************************************************************)
(* RenameWorker.run, one operation at a time.                              *)
(***************************************************************************)
SwapTmp(src) ==
    WithName(src, <<".">> \o Name(src) \o <<".", "s", "w", "a", "p", "_", "t", "m", "p">>)

NoOp == Op(<<>>, <<>>)

\* RenameWorker.__init__: the worker holds the very list MainWindow.ops
\* names (shares), so a later ops.clear() empties the worker's list too.
\* plan0 and ids0 remember the list and the entries at its sources as they
\* were when the worker started.
NewRenameWorker(f, o) ==
    [ops |-> o, shares |-> TRUE, idx |-> 0, pc |-> "fetch", cur |-> NoOp,
     progress |-> <<>>, result |-> "run", handled |-> FALSE,
     plan0 |-> o, ids0 |-> [k \in 1..Len(o) |-> IdAt(f, o[k].src)]]

\* The next element of enumerate(self.ops, 1) and the stage move
\* "_safe_move(op.src, tmp)"; "finished.emit(True, ...)" when the list is
\* exhausted, "finished.emit(False, ...)" when the move raises.
StageStep(f, w) ==
    IF w.idx >= Len(w.ops)
    THEN [fs |-> f, w |-> [w EXCEPT !.result = "ok"]]
    ELSE LET op == w.ops[w.idx + 1]
             r == SafeMove(f, op.src, SwapTmp(op.src))
         IN IF r.ok
            THEN [fs |-> r.fs,
                  w |-> [w EXCEPT !.idx = w.idx + 1, !.cur = op, !.pc = "commit"]]
            ELSE [fs |-> f,
                  w |-> [w EXCEPT !.idx = w.idx + 1, !.cur = op, !.result = "fail"]]

\* The commit move "_safe_move(tmp, op.tgt)" and "progress.emit(i, len(self.ops))".
CommitStep(f, w) ==
    LET r == SafeMove(f, SwapTmp(w.cur.src), w.cur.tgt)
    IN IF r.ok
       THEN [fs |-> r.fs,
             w |-> [w EXCEPT !.pc = "fetch",
                             !.progress = Append(w.progress, <<w.idx, Len(w.ops)>>)]]
       ELSE [fs |-> f, w |-> [w EXCEPT !.result = "fail"]]

(***************************************************************************)
(* The undo record: last_batch.json and the replay.                        *)
(***************************************************************************)
NoFile == [exists |-> FALSE, data |-> <<>>]

\* _log_undo_batch: json.dumps([[str(o.src), str(o.tgt)] for o in ops])
Serialize(o) ==
    [exists |-> TRUE,
     data |-> [k \in 1..Len(o) |-> <<PathStr(o[k].src), PathStr(o[k].tgt)>>]]

\* _load_persisted_undo: [RenameOp(Path(tgt), Path(src)) for src, tgt in data]
LoadBatch(data) ==
    [k \in 1..Len(data) |-> Op(ParsePath(data[k][2]), ParsePath(data[k][1]))]

Reverse(s) == [k \in 1..Len(s) |-> s[Len(s) + 1 - k]]

Attempt(from, to, ok) == [from |-> from, to |-> to, ok |-> ok]

\* The loop of _undo_last over todo = reversed(self.undo): every pair is
\* moved from op.tgt to op.src, a failure is collected and the loop goes on.
RECURSIVE Replay(_, _, _)
Replay(f, todo, done) ==
    IF todo = <<>> THEN [fs |-> f, attempts |-> done]
    ELSE LET op == Head(todo)
             r == SafeMove(f, op.tgt, op.src)
         IN Replay(r.fs, Tail(todo), Append(done, Attempt(op.tgt, op.src, r.ok)))

(***************************************************************************)
(* The folders and settings the model starts from.                         *)
(***************************************************************************)
File(id, dt) == [kind |-> "file", id |-> id, dt |-> dt]
Dir(id) == [kind |-> "dir", id |-> id, dt |-> 1]

DEFAULT_BAD_CHARS == {"\"", "#", "%", "*", ":", "<", ">", "?", "/", "|"}

\* The widgets as _build_ui leaves them, with the mode and the filters set.
Widgets(mode, rec, pf, pd) ==
    [mode |-> mode, rec |-> rec, pf |-> pf, pd |-> pd, exts |-> {},
     bad |-> DEFAULT_BAD_CHARS, repl |-> <<"_">>,
     pre |-> <<"i", "t", "e", "m">>, start |-> 1,
     pattern |-> [valid |-> TRUE, text |-> <<"I">>], rrepl |-> <<"p">>,
     mprefix |-> <<>>, pillow |-> TRUE,
     \* whether the folder of le_dir is an accessible directory
     root_ok |-> TRUE]

n_a_b == <<"a", " ", "b">>
n_d_x == <<"d", " ", "x">>
n_tmp_a_b == <<".", "a", " ", "b", ".", "s", "w", "a", "p", "_", "t", "m", "p">>
n_a_b_txt == <<"a", " ", "b", ".", "t", "x", "t">>
n_tmp_a_b_txt ==
    <<".", "a", " ", "b", ".", "t", "x", "t", ".", "s", "w", "a", "p", "_", "t", "m", "p">>
n_tmp_item1 ==
    <<".", "i", "t", "e", "m", "1", ".", "s", "w", "a", "p", "_", "t", "m", "p">>
n_x_jpg == <<"x", ".", "j", "p", "g">>
n_y_JPG == <<"y", ".", "J", "P", "G">>

Scenarios ==
    { \* a file, and a directory that bears the file's staging name
      [fs |-> (<<n_a_b>> :> File(1, 1)) @@ (<<n_tmp_a_b>> :> Dir(2)),
       cfg |-> Widgets("std", FALSE, TRUE, FALSE)],
      \* a directory to rename with a file to rename inside it
      [fs |-> (<<n_d_x>> :> Dir(1)) @@ (<<n_d_x, n_a_b>> :> File(2, 1)),
       cfg |-> Widgets("std", TRUE, TRUE, TRUE)],
      \* three names that sanitise to the same name
      [fs |-> (<<n_a_b>> :> File(1, 1)) @@ (<<<<"a", "_", "b">>>> :> File(2, 1))
                 @@ (<<<<"a", ":", "b">>>> :> File(3, 1)),
       cfg |-> Widgets("std", FALSE, TRUE, TRUE)],
      \* a file, and a file that bears its staging name and is filtered out
      [fs |-> (<<n_a_b_txt>> :> File(1, 1)) @@ (<<n_tmp_a_b_txt>> :> File(2, 1)),
       cfg |-> [Widgets("std", FALSE, TRUE, FALSE) EXCEPT !.exts = {<<".", "t", "x", "t">>}]],
      \* sequential numbering of a directory and the two files inside it
      [fs |-> (<<<<"d">>>> :> Dir(1)) @@ (<<<<"d">>, <<"x">>>> :> File(2, 1))
                 @@ (<<<<"d">>, <<"y">>>> :> File(3, 1)),
       cfg |-> Widgets("seq", TRUE, TRUE, TRUE)],
      \* sequential numbering of two files, one already named item1
      [fs |-> (<<<<"i", "t", "e", "m", "1">>>> :> File(1, 1)) @@ (<<<<"x">>>> :> File(2, 1)),
       cfg |-> Widgets("seq", FALSE, TRUE, FALSE)],
      \* sequential numbering of a directory, next to a file that bears the
      \* staging name of the directory's next name
      [fs |-> (<<<<"a">>>> :> Dir(1)) @@ (<<n_tmp_item1>> :> File(2, 1)),
       cfg |-> Widgets("seq", FALSE, FALSE, TRUE)],
      \* sequential numbering of three files and a directory
      [fs |-> (<<<<"a", ".", "m", "d">>>> :> File(1, 1))
                 @@ (<<<<"b", ".", "t", "x", "t">>>> :> File(2, 1))
                 @@ (<<<<"c", ".", "p", "y">>>> :> File(3, 1))
                 @@ (<<<<"d", ".", "x">>>> :> Dir(4)),
       cfg |-> Widgets("seq", FALSE, TRUE, TRUE)],
      \* a regex rename of one of two files
      [fs |-> (<<<<"I", "1">>>> :> File(1, 1)) @@ (<<<<"D", "1">>>> :> File(2, 1)),
       cfg |-> Widgets("rex", FALSE, TRUE, TRUE)],
      \* a pattern that does not compile
      [fs |-> (<<<<"I", "1">>>> :> File(1, 1)),
       cfg |-> [Widgets("rex", FALSE, TRUE, TRUE) EXCEPT !.pattern.valid = FALSE]],
      \* two photos taken in the same second
      [fs |-> (<<n_x_jpg>> :> File(1, 7)) @@ (<<n_y_JPG>> :> File(2, 7)),
       cfg |-> Widgets("meta", FALSE, TRUE, TRUE)],
      \* metadata mode without Pillow
      [fs |-> (<<n_x_jpg>> :> File(1, 7)),
       cfg |-> [Widgets("meta", FALSE, TRUE, TRUE) EXCEPT !.pillow = FALSE]],
      \* the folder of le_dir is gone, the walk is recursive
      [fs |-> <<>>,
       cfg |-> [Widgets("std", TRUE, TRUE, TRUE) EXCEPT !.root_ok = FALSE]] }

\* No function is being called on its own.
NoCall == [fn |-> "none"]

\* What the undos so far did: how many were applied, and of the last one the
\* origin of its record, the record, the moves attempted, and the number of
\* executions started before it.
NoUndoLog == [n |-> 0, source |-> "none", rec |-> <<>>, attempts |-> <<>>, runs |-> 0]

\* MainWindow.__init__ (and _load_settings: the folder of the last session
\* may be remembered).
Init ==
    /\ \E s \in Scenarios : fs = s.fs /\ cfg = s.cfg
    /\ le_dir \in BOOLEAN
    /\ watching = FALSE
    /\ watch_timer = FALSE
    /\ btn_preview = TRUE
    /\ btn_rename = TRUE
    /\ ops = <<>>
    /\ model_ops = <<>>
    /\ undo = <<>>
    /\ last_batch = NoFile
    /\ pws = <<>>
    /\ rws = <<>>
    /\ undo_log = NoUndoLog
    /\ call = NoCall

(***************************************************************************)
(* The handlers of MainWindow, each one run to its end.                    *)
(***************************************************************************)
\* _choose_dir with a folder picked; watch is cb_watch.isChecked().
ChooseDir(watch) ==
    /\ le_dir' = TRUE
    /\ watching' = watch
    /\ UNCHANGED <<call, fs, cfg, watch_timer, btn_preview, btn_rename, ops, model_ops,
                   undo, last_batch, pws, rws, undo_log>>

NewPreviewWorker(from_watch) ==
    [from_watch |-> from_watch, st |-> "run", ops |-> <<>>, err |-> "", seen |-> <<>>]

\* _start_preview, given the workers started so far: the buttons and the
\* workers afterwards.
StartPreviewEffect(from_watch, workers) ==
    IF ~le_dir
    THEN [btn |-> btn_preview, btn_r |-> btn_rename, pws |-> workers]
    ELSE IF cfg.mode = "std" /\ cfg.repl # <<>> /\ Len(cfg.repl) # 1
    THEN [btn |-> TRUE, btn_r |-> TRUE, pws |-> workers]
    ELSE [btn |-> FALSE, btn_r |-> FALSE,
          pws |-> Append(workers, NewPreviewWorker(from_watch))]

\* The Preview button.
StartPreview ==
    /\ btn_preview
    /\ le_dir
    /\ Len(pws) < MaxPreviews
    /\ LET e == StartPreviewEffect(FALSE, pws)
       IN /\ btn_preview' = e.btn
          /\ btn_rename' = e.btn_r
          /\ pws' = e.pws
    /\ UNCHANGED <<call, fs, cfg, le_dir, watching, watch_timer, ops, model_ops, undo,
                   last_batch, rws, undo_log>>

\* PreviewWorker.run: the plan is generated from the tree as it is now.
PreviewRun(i) ==
    /\ pws[i].st = "run"
    /\ \E perm \in Perms(DOMAIN fs) :
           LET g == Generate(fs, cfg, perm)
           IN pws' = [pws EXCEPT ![i] = [@ EXCEPT !.st = "emitted", !.ops = g.ops,
                                                  !.err = g.err, !.seen = fs]]
    /\ UNCHANGED <<call, fs, cfg, le_dir, watching, watch_timer, btn_preview, btn_rename,
                   ops, model_ops, undo, last_batch, rws, undo_log>>

Handled(w) == [w EXCEPT !.st = "handled", !.ops = <<>>, !.seen = <<>>]

\* "self.ops = ops": MainWindow.ops names a new list, so no worker's list is
\* MainWindow.ops any longer.
Unshared(workers) == [k \in 1..Len(workers) |-> [workers[k] EXCEPT !.shares = FALSE]]

\* _preview_finished
PreviewFinished(i) ==
    LET w == pws[i]
        rest == [pws EXCEPT ![i] = Handled(w)]
    IN /\ w.st = "emitted"
       /\ IF w.err # ""
          THEN /\ btn_preview' = TRUE
               /\ btn_rename' = TRUE
               /\ pws' = rest
               /\ UNCHANGED <<ops, model_ops, rws>>
          ELSE IF w.from_watch
          THEN /\ ops' = w.ops
               /\ rws' = Unshared(rws)
               /\ UNCHANGED model_ops
               /\ IF w.ops # <<>>
                  THEN \* _auto_rename(confirm=False)
                       /\ Len(pws) < MaxPreviews
                       /\ LET e == StartPreviewEffect(TRUE, rest)
                          IN /\ btn_preview' = e.btn
                             /\ btn_rename' = e.btn_r
                             /\ pws' = e.pws
                  ELSE /\ btn_preview' = TRUE
                       /\ btn_rename' = TRUE
                       /\ pws' = rest
          ELSE /\ ops' = w.ops
               /\ model_ops' = w.ops
               /\ rws' = Unshared(rws)
               /\ btn_preview' = TRUE
               /\ btn_rename' = TRUE
               /\ pws' = rest
       /\ UNCHANGED <<call, fs, cfg, le_dir, watching, watch_timer, undo, last_batch, undo_log>>

\* The Rename button, the question answered Yes.
Rename ==
    /\ btn_rename
    /\ ops # <<>>
    /\ Len(rws) < MaxRenames
    /\ rws' = Append(rws, NewRenameWorker(fs, ops))
    /\ UNCHANGED <<call, fs, cfg, le_dir, watching, watch_timer, btn_preview, btn_rename,
                   ops, model_ops, undo, last_batch, pws, undo_log>>

\* RenameWorker.run: the next operation is taken and staged.
RWStage(i) ==
    /\ rws[i].result = "run"
    /\ rws[i].pc = "fetch"
    /\ LET r == StageStep(fs, rws[i])
       IN /\ fs' = r.fs
          /\ rws' = [rws EXCEPT ![i] = r.w]
    /\ UNCHANGED <<call, cfg, le_dir, watching, watch_timer, btn_preview, btn_rename, ops,
                   model_ops, undo, last_batch, pws, undo_log>>

\* RenameWorker.run: the staged operation is committed.
RWCommit(i) ==
    /\ rws[i].result = "run"
    /\ rws[i].pc = "commit"
    /\ LET r == CommitStep(fs, rws[i])
       IN /\ fs' = r.fs
          /\ rws' = [rws EXCEPT ![i] = r.w]
    /\ UNCHANGED <<call, cfg, le_dir, watching, watch_timer, btn_preview, btn_rename, ops,
                   model_ops, undo, last_batch, pws, undo_log>>

\* "self.ops.clear()": every worker whose list is MainWindow.ops sees it empty.
Cleared(workers) ==
    [k \in 1..Len(workers) |->
        IF workers[k].shares THEN [workers[k] EXCEPT !.ops = <<>>] ELSE workers[k]]

\* A faulty variant of RenameFinishedEffect: an undo record written whatever
\* the outcome.
RenameFinishedEffectAlways(ok) ==
    [last_batch |-> Serialize(ops), undo |-> ops, ops |-> <<>>, model_ops |-> <<>>,
     rws |-> Cleared(rws)]

\* _rename_finished(ok, msg): what it leaves in last_batch.json, self.undo,
\* self.ops, the table and the workers' lists.
RenameFinishedEffect(ok) ==
    IF ok
    THEN [last_batch |-> Serialize(ops), undo |-> ops, ops |-> <<>>,
          model_ops |-> <<>>, rws |-> Cleared(rws)]
    ELSE [last_batch |-> last_batch, undo |-> undo, ops |-> ops,
          model_ops |-> model_ops, rws |-> rws]

\* The finished signal of worker i reaches _rename_finished.
RenameFinished(i) ==
    /\ rws[i].result \in {"ok", "fail"}
    /\ ~rws[i].handled
    /\ LET e == RenameFinishedEffect(rws[i].result = "ok")
       IN /\ last_batch' = e.last_batch
          /\ undo' = e.undo
          /\ ops' = e.ops
          /\ model_ops' = e.model_ops
          /\ rws' = [e.rws EXCEPT ![i] = [@ EXCEPT !.handled = TRUE]]
    /\ UNCHANGED <<call, fs, cfg, le_dir, watching, watch_timer, btn_preview, btn_rename,
                   pws, undo_log>>

\* _undo_last; yes is the answer to "Revert last batch?".
UndoLast(yes) ==
    /\ undo # <<>> \/ last_batch.exists
    /\ LET loaded == undo = <<>>
           rec == IF loaded THEN LoadBatch(last_batch.data) ELSE undo
           r == Replay(fs, Reverse(rec), <<>>)
       IN /\ last_batch' = IF loaded THEN NoFile ELSE last_batch
          /\ IF yes
             THEN /\ fs' = r.fs
                  /\ undo' = <<>>
                  /\ undo_log' = [n |-> undo_log.n + 1,
                                  source |-> IF loaded THEN "file" ELSE "memory",
                                  rec |-> rec, attempts |-> r.attempts,
                                  runs |-> Len(rws)]
             ELSE /\ undo' = rec
                  /\ UNCHANGED <<fs, undo_log>>
    /\ UNCHANGED <<call, cfg, le_dir, watching, watch_timer, btn_preview, btn_rename, ops,
                   model_ops, pws, rws>>

\* QFileSystemWatcher.directoryChanged: the single-shot timer is (re)started.
DirectoryChanged ==
    /\ watching
    /\ watch_timer' = TRUE
    /\ UNCHANGED <<call, fs, cfg, le_dir, watching, btn_preview, btn_rename, ops, model_ops,
                   undo, last_batch, pws, rws, undo_log>>

\* _watch_timer.timeout: _auto_rename(confirm=True); yes is the answer to
\* "Folder changed - apply last rules?".
WatchTimeout(yes) ==
    /\ watch_timer
    /\ watch_timer' = FALSE
    /\ IF yes
       THEN /\ Len(pws) < MaxPreviews
            /\ LET e == StartPreviewEffect(TRUE, pws)
               IN /\ btn_preview' = e.btn
                  /\ btn_rename' = e.btn_r
                  /\ pws' = e.pws
       ELSE UNCHANGED <<btn_preview, btn_rename, pws>>
    /\ UNCHANGED <<call, fs, cfg, le_dir, watching, ops, model_ops, undo, last_batch, rws,
                   undo_log>>

\* The application is closed and started again: main() builds a new
\* MainWindow; the workers of the old one are gone.
Restart ==
    /\ le_dir
    /\ watching' = FALSE
    /\ watch_timer' = FALSE
    /\ btn_preview' = TRUE
    /\ btn_rename' = TRUE
    /\ ops' = <<>>
    /\ model_ops' = <<>>
    /\ undo' = <<>>
    /\ pws' = [k \in 1..Len(pws) |-> Handled(pws[k])]
    /\ rws' = [k \in 1..Len(rws) |->
                  IF rws[k].handled THEN rws[k]
                  ELSE [rws[k] EXCEPT !.handled = TRUE, !.result = "killed"]]
    /\ UNCHANGED <<call, fs, cfg, le_dir, last_batch, undo_log>>

Next ==
    \/ \E watch \in BOOLEAN : ChooseDir(watch)
    \/ StartPreview
    \/ \E i \in DOMAIN pws : PreviewRun(i)
    \/ \E i \in DOMAIN pws : PreviewFinished(i)
    \/ Rename
    \/ \E i \in DOMAIN rws : RWStage(i)
    \/ \E i \in DOMAIN rws : RWCommit(i)
    \/ \E i \in DOMAIN rws : RenameFinished(i)
    \/ \E yes \in BOOLEAN : UndoLast(yes)
    \/ DirectoryChanged
    \/ \E yes \in BOOLEAN : WatchTimeout(yes)
    \/ Restart

Spec == Init /\ [][Next]_vars

(***************************************************************************)
(* Batches with nothing else going on: a preview, the execution of its     *)
(* plan, undo.  The same handlers and worker steps as in Spec, taken one   *)
(* after the other: no watcher, no restart, and no preview, execution or   *)
(* undo started while a worker runs.                                       *)
(***************************************************************************)
Quiet == \A k \in DOMAIN rws : rws[k].handled

BatchNext ==
    \/ ChooseDir(FALSE)
    \/ Quiet /\ StartPreview
    \/ \E i \in DOMAIN pws : PreviewRun(i)
    \/ \E i \in DOMAIN pws : PreviewFinished(i)
    \/ Quiet /\ Rename
    \/ \E i \in DOMAIN rws : RWStage(i)
    \/ \E i \in DOMAIN rws : RWCommit(i)
    \/ \E i \in DOMAIN rws : RenameFinished(i)
    \/ Quiet /\ UndoLast(TRUE)

SpecBatch == Init /\ [][BatchNext]_vars

(***************************************************************************)
(* Batches in a folder other programs write to: the moves of                *)
(* RenameWorker.run are system calls on a shared folder, and "except        *)
(* Exception" is there for the ones that fail.  Another program creates a   *)
(* file at a path a running worker is about to move an entry to.            *)
(***************************************************************************)
Foreign(f) == {p \in DOMAIN f : f[p].id > 100}

ForeignCreate ==
    /\ Cardinality(Foreign(fs)) < MaxForeign
    /\ \E i \in DOMAIN rws :
          /\ rws[i].result = "run"
          /\ \E k \in DOMAIN rws[i].plan0 :
                LET p == rws[i].plan0[k].tgt
                IN /\ p \notin DOMAIN fs
                   /\ Parent(p) = Root \/ IsDir(fs, Parent(p))
                   /\ fs' = fs @@ (p :> File(101 + Cardinality(Foreign(fs)), 1))
    /\ UNCHANGED <<call, cfg, le_dir, watching, watch_timer, btn_preview, btn_rename, ops,
                   model_ops, undo, last_batch, pws, rws, undo_log>>

SharedNext == BatchNext \/ ForeignCreate

SpecShared == Init /\ [][SharedNext]_vars

(***************************************************************************)
(* One session at the window: batches, the watcher, and the user typing    *)
(* into le_pattern between two previews.  The widgets are read when         *)
(* _start_preview runs, so a worker works on what they held then: the      *)
(* pattern is edited while no worker is generating.                        *)
(***************************************************************************)
EditPattern ==
    /\ cfg.mode = "rex"
    /\ \A i \in DOMAIN pws : pws[i].st # "run"
    /\ cfg' = [cfg EXCEPT !.pattern.valid = ~cfg.pattern.valid]
    /\ UNCHANGED <<call, fs, le_dir, watching, watch_timer, btn_preview, btn_rename, ops,
                   model_ops, undo, last_batch, pws, rws, undo_log>>

SessionNext ==
    \/ BatchNext
    \/ ChooseDir(TRUE)
    \/ DirectoryChanged
    \/ \E yes \in BOOLEAN : WatchTimeout(yes)
    \/ EditPattern

SpecSession == Init /\ [][SessionNext]_vars

(***************************************************************************)
(* The functions of the engine called on their own.  Every variable of the *)
(* window keeps the value it has in a window that was just opened.         *)
(***************************************************************************)
Idle ==
    /\ fs = <<>>
    /\ cfg = Widgets("std", FALSE, TRUE, TRUE)
    /\ le_dir = FALSE
    /\ watching = FALSE
    /\ watch_timer = FALSE
    /\ btn_preview = TRUE
    /\ btn_rename = TRUE
    /\ ops = <<>>
    /\ model_ops = <<>>
    /\ undo = <<>>
    /\ last_batch = NoFile
    /\ pws = <<>>
    /\ rws = <<>>
    /\ undo_log = NoUndoLog

window == <<fs, cfg, le_dir, watching, watch_timer, btn_preview, btn_rename,
            ops, model_ops, undo, last_batch, pws, rws, undo_log>>

\* Every string of at most n characters of A.
Strings(A, n) == UNION {[1..k -> A] : k \in 0..n}

n_bad_name_txt == <<"b", "a", "d", ":", "n", "a", "m", "e", "?", ".", "t", "x", "t">>
n_con_txt == <<"c", "o", "n", ".", "t", "x", "t">>

\* The arguments sanitise is called with: name, bad, repl.
SanitiseNames ==
    Strings({" ", "_", ".", ":", "c", "o", "n"}, MaxNameLen)
        \cup {n_bad_name_txt, n_con_txt, <<"C", "O", "N", ".", "t", "x", "t">>,
              <<"\t", "l", "p", "t", "1", "\t", "\t", "_", ":">>, <<"a", " ", "b">>}
SanitiseBads == {{":"}, {":", "?"}, {":", "_"}}
SanitiseRepls == {<<>>, <<"_">>, <<"-">>}

InitSanitise ==
    /\ Idle
    /\ \E name \in SanitiseNames, bad \in SanitiseBads, repl \in SanitiseRepls :
           call = [fn |-> "sanitise", name |-> name, bad |-> bad, repl |-> repl,
                   outs |-> <<>>]

\* sanitise is applied to the name, then once more to what it returned.
CallSanitise ==
    /\ call.fn = "sanitise"
    /\ Len(call.outs) < 2
    /\ LET arg == IF call.outs = <<>> THEN call.name ELSE call.outs[Len(call.outs)]
       IN call' = [call EXCEPT !.outs = Append(@, Sanitise(arg, call.bad, call.repl))]
    /\ UNCHANGED window

SpecSanitise == InitSanitise /\ [][CallSanitise]_vars

\* The arguments _unique is called with: the target, the claimed set, and the
\* disk it looks at.
n_x_y_z == <<"x", ".", "y", ".", "z">>
UniqueTargets == {<<<<"a">>>>, <<n_a_b_txt>>, <<<<"d">>, n_x_y_z>>}
UniquePaths(tgt) ==
    {tgt, <<<<"z">>>>} \cup {Candidate(tgt, i) : i \in 1..MaxSuffix}
\* The target and every candidate the loop of _unique can form.
Exhausted(tgt) == {tgt} \cup {Candidate(tgt, i) : i \in 1..(UNIQUE_LIMIT - 1)}
UniqueClaims(tgt) ==
    (SUBSET UniquePaths(tgt)) \cup
        (IF tgt = <<n_a_b_txt>>
         THEN {Exhausted(tgt), Exhausted(tgt) \ {tgt},
               Exhausted(tgt) \ {Candidate(tgt, 1)},
               Exhausted(tgt) \ {Candidate(tgt, UNIQUE_LIMIT - 1)}}
         ELSE {})

InitUnique ==
    /\ Idle
    /\ \E tgt \in UniqueTargets :
         \E taken \in UniqueClaims(tgt), disk \in SUBSET UniquePaths(tgt) :
           call = [fn |-> "unique", f |-> [p \in disk |-> File(1, 1)], tgt |-> tgt,
                   taken |-> taken, done |-> FALSE, ret |-> NoPath, after |-> taken]

\* _unique(tgt, taken): what it returns and the claimed set it leaves.
CallUnique ==
    /\ call.fn = "unique"
    /\ ~call.done
    /\ call' = [call EXCEPT !.done = TRUE,
                            !.ret = Unique(call.f, call.tgt, call.taken),
                            !.after = UniqueTaken(call.f, call.tgt, call.taken)]
    /\ UNCHANGED window

SpecUnique == InitUnique /\ [][CallUnique]_vars

\* A folder in which the name "a b" sanitises to is taken, with every suffix
\* _unique can try, by directories; beside "a b" there is the file "c d".
n_c_d == <<"c", " ", "d">>
CrowdedDirs == Exhausted(<<<<"a", "_", "b">>>>)
CrowdedTree ==
    [p \in CrowdedDirs \cup {<<n_a_b>>, <<n_c_d>>} |->
        IF p \in CrowdedDirs THEN Dir(3) ELSE IF p = <<n_a_b>> THEN File(1, 1) ELSE File(2, 1)]
\* The directories in the order of their suffixes.
CrowdedOrder ==
    <<<<<<"a", "_", "b">>>>>> \o
        [i \in 1..(UNIQUE_LIMIT - 1) |-> Candidate(<<<<"a", "_", "b">>>>, i)]

\* The arguments PreviewWorker.run works on: the tree, the widgets' values and
\* the order in which the directories list their entries.  Every scenario's
\* tree is taken with every mode, with and without recursion, a compiling
\* pattern and Pillow; a folder that is gone holds nothing.
GenerateInputs ==
    LET Variants(c) ==
            {[c EXCEPT !.mode = m, !.rec = r, !.pattern.valid = v, !.pillow = pl] :
                m \in {"std", "seq", "rex", "meta"}, r \in BOOLEAN, v \in BOOLEAN,
                pl \in BOOLEAN}
    IN UNION {{[f |-> sc.fs, c |-> c, perm |-> perm] :
                  c \in Variants(sc.cfg), perm \in Perms(DOMAIN sc.fs)} : sc \in Scenarios}
       \cup {[f |-> CrowdedTree, c |-> Widgets("std", FALSE, TRUE, FALSE), perm |-> perm] :
                perm \in {<<<<n_a_b>>, <<n_c_d>>>> \o CrowdedOrder,
                          <<<<n_c_d>>, <<n_a_b>>>> \o CrowdedOrder}}

InitGenerate ==
    /\ Idle
    /\ \E in \in GenerateInputs :
           call = [fn |-> "generate", f |-> in.f, c |-> in.c, perm |-> in.perm,
                   done |-> FALSE, ops |-> <<>>, err |-> ""]

\* PreviewWorker.run: what it emits.
CallGenerate ==
    /\ call.fn = "generate"
    /\ ~call.done
    /\ LET g == Generate(call.f, call.c, call.perm)
       IN call' = [call EXCEPT !.done = TRUE, !.ops = g.ops, !.err = g.err]
    /\ UNCHANGED window

SpecGenerate == InitGenerate /\ [][CallGenerate]_vars

(***************************************************************************)
(* What a step of the machine was.                                         *)
(***************************************************************************)
\* Worker i performed its stage move in this step.
Staged(i) ==
    /\ rws[i].result = "run" /\ rws[i].pc = "fetch"
    /\ rws'[i].pc = "commit"
    /\ fs' # fs

\* Worker i performed its commit move in this step.
Committed(i) ==
    /\ rws[i].result = "run" /\ rws[i].pc = "commit"
    /\ rws'[i].pc = "fetch"
    /\ fs' # fs

\* The finished signal of worker i was handled in this step.
FinishHandled(i, result) ==
    /\ rws[i].result = result /\ ~rws[i].handled
    /\ rws'[i].result = result /\ rws'[i].handled

\* Worker i took a step of its run in this step.
WorkerStepped(i) ==
    /\ rws[i].result = "run"
    /\ rws'[i].result # "killed"
    /\ <<rws'[i].idx, rws'[i].pc, rws'[i].result>> # <<rws[i].idx, rws[i].pc, rws[i].result>>

\* An undo was applied in this step.
UndoApplied == undo_log'.n = undo_log.n + 1

\* The operations worker w has executed: those whose progress it emitted.
Executed(w) == SubSeq(w.plan0, 1, Len(w.progress))

Emitted == {i \in DOMAIN pws : pws[i].st = "emitted"}

(***************************************************************************)
(* The claims.                                                             *)
(***************************************************************************)
\* C1: while a generated plan is executed with nothing else touching the
\* tree, every stage move (source -> .<name>.swap_tmp) and every commit move
\* (temporary name -> target) finds its destination path absent.
C1_DestinationAbsent ==
    [][\A i \in DOMAIN rws :
          /\ Staged(i) => SwapTmp(rws'[i].cur.src) \notin DOMAIN fs
          /\ Committed(i) => rws[i].cur.tgt \notin DOMAIN fs]_vars

\* C2: after a plan has been executed with full success and its undo record
\* has been applied, every renamed entry is at its original source path and
\* no entry is at any target path of the plan.
C2_RoundTrip ==
    (/\ Len(rws) = 1
     /\ rws[1].result = "ok" /\ rws[1].handled
     /\ undo_log.n = 1)
    => \A j \in DOMAIN rws[1].plan0 :
          /\ IdAt(fs, rws[1].plan0[j].src) = rws[1].ids0[j]
          /\ rws[1].plan0[j].tgt \notin DOMAIN fs

\* C3: in every generated plan the targets are pairwise distinct, and no
\* target is a path that was present on the filesystem when it was allocated
\* or that an earlier operation of the plan had claimed.
C3_TargetsFresh ==
    \A i \in Emitted :
        \A a \in DOMAIN pws[i].ops :
            /\ pws[i].ops[a].tgt \notin DOMAIN pws[i].seen
            /\ \A b \in 1..(a - 1) : pws[i].ops[b].tgt # pws[i].ops[a].tgt

\* C3 witness: a plan of several operations, one of whose sanitised names
\* was already on the disk, so that the allocator had to find another.
C3_Witness ==
    \E i \in Emitted :
        /\ cfg.mode = "std"
        /\ Len(pws[i].ops) >= 2
        /\ \E a \in DOMAIN pws[i].ops :
              WithName(pws[i].ops[a].src,
                       Sanitise(Name(pws[i].ops[a].src), cfg.bad, cfg.repl))
                  \in DOMAIN pws[i].seen

\* C4: when the k-th of n operations has failed, exactly the progress events
\* (1,n)..(k-1,n) were emitted, operations 1..k-1 are at their targets, and
\* the entries of operations k+1..n are still at their original paths.
C4_FailFast ==
    \A i \in DOMAIN rws :
        (rws[i].result = "fail" /\ ~rws[i].handled) =>
            LET w == rws[i]
                k == w.idx
                n == Len(w.plan0)
            IN /\ w.progress = [j \in 1..(k - 1) |-> <<j, n>>]
               /\ \A j \in 1..(k - 1) : IdAt(fs, w.plan0[j].tgt) = w.ids0[j]
               /\ \A j \in (k + 1)..n : IdAt(fs, w.plan0[j].src) = w.ids0[j]

\* C5: in every generated plan, an operation whose source lies inside the
\* source directory of another operation comes before that operation.
C5_DeepestFirst ==
    \A i \in Emitted :
        \A a, b \in DOMAIN pws[i].ops :
            IsAncestor(pws[i].ops[a].src, pws[i].ops[b].src) => b < a

\* C6: when the full success of an execution is handled, the undo record
\* that becomes pending, in memory and in last_batch.json, is the plan that
\* worker executed, operation by operation and in the same order.
C6_UndoIsExecutedPlan ==
    [][\A i \in DOMAIN rws :
          FinishHandled(i, "ok") =>
              /\ undo' = Executed(rws[i])
              /\ last_batch' = Serialize(Executed(rws[i]))]_vars

\* C7: no step of a running execution and no handling of a failed execution
\* changes the undo record, in memory or in last_batch.json; as long as no
\* execution has succeeded there is no undo record at all.
C7_FailureWritesNoUndo ==
    [][/\ \A i \in DOMAIN rws :
             (WorkerStepped(i) \/ FinishHandled(i, "fail"))
                 => undo' = undo /\ last_batch' = last_batch
       /\ (\A i \in DOMAIN rws' : rws'[i].result # "ok")
             => undo' = <<>> /\ last_batch' = NoFile]_vars

\* C7 witness: a failed execution has been handled while the undo record of
\* an earlier, successful execution is pending in memory and on disk.
C7_Witness ==
    \E i \in DOMAIN rws :
        /\ rws[i].result = "fail" /\ rws[i].handled
        /\ undo # <<>>
        /\ last_batch.exists

\* C8: once an undo has been applied no undo record is pending, neither in
\* memory nor in last_batch.json, and a further undo with no execution in
\* between moves nothing.
C8_UndoConsumesRecord ==
    [][UndoApplied =>
          /\ undo' = <<>> /\ last_batch' = NoFile
          /\ (undo_log.n >= 1 /\ undo_log.runs = Len(rws)) => fs' = fs]_vars

\* C9: an undo applied from last_batch.json uses a record equal to the one
\* that was written there, and moves every entry from its persisted target
\* path back to its persisted source path.
C9_LoadedRecordIsWritten ==
    [][(UndoApplied /\ undo_log'.source = "file") =>
          /\ Serialize(undo_log'.rec) = last_batch
          /\ \A k \in DOMAIN undo_log'.attempts :
                LET pair == last_batch.data[Len(last_batch.data) + 1 - k]
                IN /\ undo_log'.attempts[k].from = ParsePath(pair[2])
                   /\ undo_log'.attempts[k].to = ParsePath(pair[1])]_vars

\* C10: an undo attempts every operation of the executed plan exactly once,
\* in the reverse of the order of execution, each one as a move from the
\* operation's target back to its source, whether or not other moves fail.
C10_ReplayReversesExecution ==
    [][(UndoApplied /\ Len(rws) = 1 /\ rws[1].result = "ok" /\ rws[1].handled) =>
          LET plan == Executed(rws[1])
              n == Len(plan)
          IN /\ Len(undo_log'.attempts) = n
             /\ \A k \in 1..n :
                   /\ undo_log'.attempts[k].from = plan[n + 1 - k].tgt
                   /\ undo_log'.attempts[k].to = plan[n + 1 - k].src]_vars

\* The argument of the k-th application of sanitise.
SanitiseArg(k) == IF k = 1 THEN call.name ELSE call.outs[k - 1]

Sanitised == IF call.fn = "sanitise" THEN DOMAIN call.outs ELSE {}

White == {" ", "\t"}

\* The text before the first "." of a name, and the rest of the name.
DeviceStem(n) == SplitAt(n, ".", <<>>)[1]
AfterStem(n) == SubSeq(n, Len(DeviceStem(n)) + 1, Len(n))

\* C11: sanitise applied to its own result returns that result.
C11_Idempotent ==
    (call.fn = "sanitise" /\ Len(call.outs) = 2) => call.outs[2] = call.outs[1]

\* Cleaning leaves nothing of the name: every character is dropped, or
\* becomes or is white space, which is stripped.
LeavesNothing(name, bad, repl) ==
    \A k \in DOMAIN name :
        IF name[k] \in bad THEN repl = <<>> \/ repl[1] \in White ELSE name[k] \in White

\* C12: sanitise never returns the empty string, and returns "_" whenever
\* cleaning leaves nothing of the name.
C12_NeverEmpty ==
    \A k \in Sanitised :
        /\ Len(call.outs[k]) >= 1
        /\ LeavesNothing(SanitiseArg(k), call.bad, call.repl) => call.outs[k] = <<"_">>

\* C12 witness: a non-empty name of which cleaning leaves nothing was
\* sanitised.
C12_Witness ==
    /\ 1 \in Sanitised
    /\ call.name # <<>>
    /\ LeavesNothing(call.name, call.bad, call.repl)

\* The characters of s that no rule of sanitise touches.
Untouched(s, bad, repl) ==
    SelectSeq(s, LAMBDA c : c \notin bad \cup White \cup {"_"} \cup Range(repl))

Count(s, c) == Cardinality({k \in DOMAIN s : s[k] = c})

\* C13: no bad character of the name is left in the result (other than the
\* replacement character itself and "_"); with a replacement character
\* every bad character has become one occurrence of it, with none every
\* bad character is gone; the other characters are kept in their order;
\* "bad:name?.txt" with {":", "?"} and "_" gives "bad_name_.txt".
C13_CharacterRule ==
    \A k \in Sanitised :
        LET arg == SanitiseArg(k)
            out == call.outs[k]
        IN /\ \A c \in call.bad \ ({"_"} \cup Range(call.repl)) : c \notin Range(out)
           /\ Untouched(out, call.bad, call.repl) = Untouched(arg, call.bad, call.repl)
           /\ (call.repl = <<"-">>) =>
                 Count(out, "-") = Cardinality({j \in DOMAIN arg : arg[j] \in call.bad \cup {"-"}})
           /\ (arg = n_bad_name_txt /\ call.bad = {":", "?"} /\ call.repl = <<"_">>)
                 => out = <<"b", "a", "d", "_", "n", "a", "m", "e", "_", ".", "t", "x", "t">>

\* C13 witness: "bad:name?.txt" was sanitised with {":", "?"} and "_".
C13_Witness ==
    /\ 1 \in Sanitised
    /\ call.name = n_bad_name_txt /\ call.bad = {":", "?"} /\ call.repl = <<"_">>

\* A name that sanitise has nothing to clean in.
Clean(name, bad) ==
    /\ \A k \in DOMAIN name : name[k] \notin bad \cup White
    /\ \A k \in 1..(Len(name) - 1) : ~(name[k] = "_" /\ name[k + 1] = "_")

\* C14: the text before the first "." of the result is never a reserved
\* device name, whatever the case of its letters; a clean name whose stem
\* is reserved comes back with one "_" after the stem and the rest as it
\* was: "con.txt" gives "con_.txt".
C14_ReservedGuard ==
    \A k \in Sanitised :
        LET arg == SanitiseArg(k)
            out == call.outs[k]
        IN /\ LowerStr(DeviceStem(out)) \notin WIN_RESERVED
           /\ (Clean(arg, call.bad) /\ LowerStr(DeviceStem(arg)) \in WIN_RESERVED)
                 => out = DeviceStem(arg) \o <<"_">> \o AfterStem(arg)
           /\ arg = n_con_txt => out = <<"c", "o", "n", "_", ".", "t", "x", "t">>

\* C14 witness: "con.txt" was sanitised.
C14_Witness == 1 \in Sanitised /\ call.name = n_con_txt

\* The name the generator of mode c.mode derives for the source of the
\* a-th operation of plan o, generated from the tree f.
DesiredName(c, f, o, a) ==
    LET src == o[a].src
    IN CASE c.mode = "std" -> Sanitise(Name(src), c.bad, c.repl)
         [] c.mode = "seq" ->
                c.pre \o Str(c.start + a - 1)
                      \o (IF IsFile(f, src) THEN Suffix(Name(src)) ELSE <<>>)
         [] c.mode = "rex" -> RegexSub(c.pattern, c.rrepl, Name(src))
         [] OTHER -> c.mprefix \o Strftime(PhotoDt(f, src)) \o LowerStr(Suffix(Name(src)))

\* C15: no operation of a generated plan belongs to an entry whose derived
\* name is the name it already has, and every operation's target differs
\* from its source.
C15_NoOpSkipped ==
    \A i \in Emitted :
        \A a \in DOMAIN pws[i].ops :
            /\ DesiredName(cfg, pws[i].seen, pws[i].ops, a) # Name(pws[i].ops[a].src)
            /\ pws[i].ops[a].tgt # pws[i].ops[a].src

\* The entries the walk yields and the extension filter lets through.
Eligible(f, c) ==
    {p \in DOMAIN f :
        /\ c.rec \/ Len(p) = 1
        /\ IsFile(f, p) => c.pf
        /\ IsDir(f, p) => c.pd
        /\ ~ExtSkipped(f, p, c.exts)}

\* C16: a sequential plan has one operation for every eligible entry, in
\* ascending order of the source paths; the k-th of them (from 0) is given
\* the name prefix, start + k, and the extension of a file or nothing for a
\* directory, and that name is its target when no entry and no earlier
\* operation holds it.
C16_SequentialNumbering ==
    \A i \in Emitted :
        (cfg.mode = "seq" /\ pws[i].err = "") =>
            LET o == pws[i].ops
                f == pws[i].seen
            IN /\ {o[a].src : a \in DOMAIN o} = Eligible(f, cfg)
               /\ \A a, b \in DOMAIN o : a < b => PathLess(o[a].src, o[b].src)
               /\ \A a \in DOMAIN o :
                     LET suf == IF IsFile(f, o[a].src) THEN Suffix(Name(o[a].src)) ELSE <<>>
                         want == WithName(o[a].src, cfg.pre \o Str(cfg.start + a - 1) \o suf)
                     IN /\ Parent(o[a].tgt) = Parent(o[a].src)
                        /\ (want \notin DOMAIN f /\ \A b \in 1..(a - 1) : o[b].tgt # want)
                              => o[a].tgt = want

\* C16 witness: the files a.md, b.txt, c.py and the directory d.x were
\* numbered item1.md, item2.txt, item3.py and item4.
C16_Witness ==
    \E i \in Emitted :
        /\ cfg.mode = "seq"
        /\ Len(pws[i].ops) = 4
        /\ pws[i].ops[1].tgt = <<<<"i", "t", "e", "m", "1", ".", "m", "d">>>>
        /\ pws[i].ops[2].tgt = <<<<"i", "t", "e", "m", "2", ".", "t", "x", "t">>>>
        /\ pws[i].ops[3].tgt = <<<<"i", "t", "e", "m", "3", ".", "p", "y">>>>
        /\ pws[i].ops[4].tgt = <<<<"i", "t", "e", "m", "4">>>>

\* The path '<stem>_N<ext>' beside p.
Suffixed(p, N) ==
    Parent(p) \o <<Stem(Name(p)) \o <<"_">> \o Str(N) \o Suffix(Name(p))>>

\* p is neither claimed nor on the disk of the call.
FreeAtCall(p) == p \notin call.taken /\ p \notin DOMAIN call.f

\* C17: _unique returns the desired path when it is neither claimed nor on the
\* disk; otherwise the path '<stem>_N<ext>' of the smallest N >= 1 that is in
\* neither; either way the claimed set becomes the old one plus the returned
\* path; and when the 10,000 attempts (the desired path and N = 1..9999) find
\* nothing it raises instead of returning a path.
C17_AllocatorResult ==
    (call.fn = "unique" /\ call.done) =>
        LET Ns == 1..(UNIQUE_LIMIT - 1)
        IN IF FreeAtCall(call.tgt)
           THEN call.ret = call.tgt /\ call.after = call.taken \cup {call.tgt}
           ELSE IF \E N \in Ns : FreeAtCall(Suffixed(call.tgt, N))
           THEN \E N \in Ns :
                    /\ FreeAtCall(Suffixed(call.tgt, N))
                    /\ \A j \in 1..(N - 1) : ~FreeAtCall(Suffixed(call.tgt, j))
                    /\ call.ret = Suffixed(call.tgt, N)
                    /\ call.after = call.taken \cup {Suffixed(call.tgt, N)}
           ELSE call.ret = NoPath

\* The desired path is on the disk, _1 is claimed, and _2 is returned.
C17_Witness ==
    /\ call.fn = "unique" /\ call.done
    /\ call.tgt = <<n_a_b_txt>>
    /\ call.tgt \in DOMAIN call.f
    /\ Suffixed(call.tgt, 1) \in call.taken
    /\ Suffixed(call.tgt, 1) \notin DOMAIN call.f
    /\ call.ret = Suffixed(call.tgt, 2)

\* Every one of the 10,000 attempts is occupied, and the call raised.
C17_Exhausted ==
    /\ call.fn = "unique" /\ call.done
    /\ call.ret = NoPath
    /\ ~FreeAtCall(call.tgt)
    /\ Suffixed(call.tgt, 1) \in DOMAIN call.f

\* The workers whose run() has not returned yet.
PreviewsInFlight == {i \in DOMAIN pws : pws[i].st = "run"}
RenamesInFlight == {i \in DOMAIN rws : rws[i].result = "run"}

\* C18: in every reachable state at most one PreviewWorker and at most one
\* RenameWorker is in flight.
C18_OneWorkerPerKind ==
    /\ Cardinality(PreviewsInFlight) <= 1
    /\ Cardinality(RenamesInFlight) <= 1

\* The step starts a PreviewWorker on behalf of the watcher: _auto_rename
\* reached _start_preview(from_watch=True).
WatchStarted ==
    /\ Len(pws') = Len(pws) + 1
    /\ pws'[Len(pws')].from_watch

\* The step is a directoryChanged notification arming the timer.
TimerArmed == ~watch_timer /\ watch_timer'

\* C19: a notification only (re)starts the single-shot timer, so a burst
\* leaves one pending timeout and starts no generation run itself; and a
\* generation run started on behalf of the watcher never begins while
\* another generation run is in flight.
C19_DebouncedReplan ==
    [][/\ TimerArmed => pws' = pws
       /\ WatchStarted => PreviewsInFlight = {}]_vars

\* Some entry of the plan-to-be needs a new name in standard mode, and that
\* name and each of its 9,999 suffixed forms is on the disk.
Starved(f, c) ==
    /\ c.mode = "std"
    /\ \E p \in Eligible(f, c) :
           LET t == WithName(p, Sanitise(Name(p), c.bad, c.repl))
           IN /\ t # p
              /\ t \in DOMAIN f
              /\ Suffixed(t, UNIQUE_LIMIT - 1) \in DOMAIN f
              /\ \A N \in 1..(UNIQUE_LIMIT - 1) : Suffixed(t, N) \in DOMAIN f

\* C20: an error is emitted with an empty list; a pattern that does not
\* compile, a missing Pillow, a root that is not an accessible directory and
\* an exhausted allocator each make the worker emit an error; and the first
\* two are found before the root is enumerated, so that theirs is the error
\* emitted whatever the folder holds.
C20_AllOrNothing ==
    (call.fn = "generate" /\ call.done) =>
        /\ call.err # "" => call.ops = <<>>
        /\ (call.c.mode = "rex" /\ ~call.c.pattern.valid) => call.err = "bad pattern"
        /\ (call.c.mode = "meta" /\ ~call.c.pillow)
               => call.err = "Metadata mode requires Pillow"
        /\ ~call.c.root_ok => call.err # ""
        /\ Starved(call.f, call.c) => call.err # ""

\* Where the entry of operation j of worker w is in tree f.
EntryOf(f, w, j) == WhereIs(f, w.ids0[j])

\* The step took operation j of worker i from PENDING to STAGED: the
\* operation is the one after the last one taken, and its entry is at the
\* hidden temporary name in the directory of its source.
PendingToStaged(i, j) ==
    /\ rws[i].pc = "fetch" /\ rws'[i].pc = "commit"
    /\ j = rws[i].idx + 1 /\ rws'[i].idx = j
    /\ rws'[i].cur = rws[i].plan0[j]
    /\ EntryOf(fs', rws[i], j) = {SwapTmp(rws[i].plan0[j].src)}

\* The step took operation j of worker i from STAGED to COMMITTED: it is the
\* operation that was staged, and its entry is at its target.
StagedToCommitted(i, j) ==
    /\ rws[i].pc = "commit" /\ rws'[i].pc = "fetch"
    /\ j = rws[i].idx /\ rws'[i].idx = j
    /\ EntryOf(fs', rws[i], j) = {rws[i].plan0[j].tgt}

\* C21: every step of an executing worker that does not end the run takes
\* the next operation of the plan from PENDING to STAGED, its entry then at
\* the temporary name beside its source, or takes the one staged operation
\* to COMMITTED, its entry then at its target; nothing is skipped, reversed
\* or taken out of order.
C21_OperationProtocol ==
    [][\A i \in DOMAIN rws :
          (WorkerStepped(i) /\ rws'[i].result = "run") =>
              \E j \in DOMAIN rws[i].plan0 :
                  PendingToStaged(i, j) \/ StagedToCommitted(i, j)]_vars

\* The plans there are: those the preview workers emitted and those the
\* rename workers were started on.
PlansAbout ==
    {pws[i].ops : i \in Emitted} \cup {rws[i].plan0 : i \in DOMAIN rws}

\* C22: in every operation of every plan the target is in the directory of
\* the source, and so is the temporary path the worker stages it at.
C22_SameDirectory ==
    \A o \in PlansAbout :
        \A a \in DOMAIN o :
            /\ Parent(o[a].tgt) = Parent(o[a].src)
            /\ Parent(SwapTmp(o[a].src)) = Parent(o[a].src)

\* C22 witness: an entry whose target got the suffix _1, because a_b was on
\* the disk, is staged at its temporary path beside its source.
C22_Witness ==
    \E i \in DOMAIN rws :
        /\ rws[i].result = "run" /\ rws[i].pc = "commit"
        /\ rws[i].cur.tgt = <<<<"a", "_", "b", "_", "1">>>>
        /\ EntryOf(fs, rws[i], rws[i].idx) = {SwapTmp(rws[i].cur.src)}

\* The walk of tree f under the widgets' values c when the directories list
\* their entries in the order perm.
Walk(f, c, perm) == Targets(f, c.rec, c.pf, c.pd, perm)

\* C23: the walk returns the entries in non-increasing depth, and two walks
\* of the same tree whose directories list their entries in different
\* orders return the same sequence and lead to the same plan.
C23_WalkerDeterminism ==
    \A i \in Emitted :
        LET f == pws[i].seen
        IN \A p1, p2 \in Perms(DOMAIN f) :
               /\ \A a, b \in DOMAIN Walk(f, cfg, p1) :
                      a < b => Len(Walk(f, cfg, p1)[a]) >= Len(Walk(f, cfg, p1)[b])
               /\ Walk(f, cfg, p1) = Walk(f, cfg, p2)
               /\ Generate(f, cfg, p1).ops = Generate(f, cfg, p2).ops

\* _preview_finished handled, in this step, the plan of the watcher-driven
\* preview worker i, and the plan is not empty ("self.ops = ops").
WatchPlanHandled(i) ==
    /\ pws[i].st = "emitted" /\ pws'[i].st = "handled"
    /\ pws[i].from_watch
    /\ pws[i].err = "" /\ pws[i].ops # <<>>
    /\ ops' = pws[i].ops

\* C24: when the plan of a watcher-driven generation run is not empty, the
\* flow starts the execution worker on that plan and starts no further
\* generation run.
C24_AutoRenameExecutes ==
    [][\A i \in DOMAIN pws :
          WatchPlanHandled(i) =>
              /\ Len(rws') = Len(rws) + 1
              /\ rws'[Len(rws')].plan0 = pws[i].ops
              /\ Len(pws') = Len(pws)]_vars

\* C25: when a worker has emitted its finished signal, no entry of its plan
\* is at a staging temporary name: each is under the name of its source or
\* the name of its target, also when it was the commit move that failed.
C25_NothingLeftStaged ==
    \A i \in DOMAIN rws :
        (rws[i].result \in {"ok", "fail"} /\ ~rws[i].handled) =>
            \A j \in DOMAIN rws[i].plan0 :
                \A q \in EntryOf(fs, rws[i], j) :
                    /\ q # SwapTmp(rws[i].plan0[j].src)
                    /\ Name(q) \in {Name(rws[i].plan0[j].src), Name(rws[i].plan0[j].tgt)}

\* The first execution, with no undo applied so far: its plan was generated
\* from the tree as it was when the execution began.
FreshRun == Len(rws) >= 1 /\ undo_log.n = 0

\* C26: the execution of a freshly generated plan on the unchanged tree does
\* not fail at any operation and ends with the success event.
C26_PlanExecutable ==
    FreshRun => rws[1].result # "fail"

\* No preview worker and no rename worker has a signal still to be handled.
NoWorkerInFlight ==
    /\ \A i \in DOMAIN pws : pws[i].st = "handled"
    /\ \A i \in DOMAIN rws : rws[i].handled

\* _preview_finished handled what preview worker i emitted in this step.
PreviewHandled(i) == pws[i].st = "emitted" /\ pws'[i].st = "handled"

\* C27: when no worker is in flight the plan Rename would execute is the plan
\* shown in the table; when a generation is handled the held plan becomes
\* its result, empty when it failed; and when a successful execution is
\* handled the held plan and the table become empty.
C27_PlanNeverStale ==
    /\ [](NoWorkerInFlight => ops = model_ops)
    /\ [][\A i \in DOMAIN pws :
             PreviewHandled(i) =>
                 ops' = (IF pws[i].err # "" THEN <<>> ELSE pws[i].ops)]_vars
    /\ [][\A i \in DOMAIN rws :
             FinishHandled(i, "ok") => ops' = <<>> /\ model_ops' = <<>>]_vars

=============================================================================
